---- MODULE Spec2Model ----
(***************************************************************************)
(* Model of the two request handlers of benefits360/backend/router.py that *)
(* carry decision logic:                                                   *)
(*   search_people      - decodes the items of a vector-search result      *)
(*   get_person_profile - primary/secondary table lookup and row decoding  *)
(* Python values are tagged records; a dict is a function whose domain is  *)
(* its key set; a number is kept in hundredths together with its Python    *)
(* type (int or float).                                                    *)
(***************************************************************************)
EXTENDS Integers, Sequences, FiniteSets, TLC

\* ------------------------------------------------------------------ bounds
\* largest number of items in a search result set
MaxItems == 2
\* longest positional value sequence an item carries
MaxSeqLen == 7

\* ---------------------------------------------------------- Python values
NoneV == [t |-> "none"]
Num(k, n) == [t |-> "num", k |-> k, n |-> n]
Str(s) == [t |-> "str", s |-> s]
DictV(m) == [t |-> "dict", m |-> m]
ObjV(m) == [t |-> "obj", m |-> m]
ListV(e) == [t |-> "list", e |-> e]
\* an instance of a list/tuple subclass: elements plus instance attributes
ListSubV(e, m) == [t |-> "listsub", e |-> e, m |-> m]
Callable == [t |-> "callable"]

\* the empty dict {}
EmptyDict == [k \in {} |-> NoneV]

\* d[k] = v on a dict
DictSet(d, k, v) == [x \in (DOMAIN d) \cup {k} |-> IF x = k THEN v ELSE d[x]]

\* {k: v for k, v in d.items() if k in keep}
DictFilter(d, keep) == [x \in (DOMAIN d) \cap keep |-> d[x]]

\* Python truthiness of a value (bool(v))
Truthy(v) ==
    CASE v.t = "none" -> FALSE
      [] v.t = "num" -> v.n # 0
      [] v.t = "str" -> v.s # ""
      [] v.t = "dict" -> DOMAIN v.m # {}
      [] v.t = "list" -> Len(v.e) > 0
      [] OTHER -> TRUE

\* k.startswith("_") for the attribute and key names that occur
PrivateNames == {"_score", "_raw", "_sa_instance_state"}
StartsWithUnderscore(k) == k \in PrivateNames

\* isinstance(v, (int, float))
IsNumber(v) == v.t = "num"

\* float(v) for a number: the value is kept, the type becomes float
FloatOf(v) == Num("float", v.n)

\* isinstance(v, (list, tuple)) and isinstance(v, dict)
IsListOrTuple(v) == v.t \in {"list", "listsub"}
IsDict(v) == v.t = "dict"

\* hasattr(v, "__dict__"): instances of ordinary classes, not builtins
HasDunderDict(v) == v.t \in {"obj", "listsub"}

\* the public methods dir() lists for a builtin dict / list
DictMethods ==
    {"clear", "copy", "fromkeys", "get", "items", "keys", "pop", "popitem",
     "setdefault", "update", "values"}
ListMethods ==
    {"append", "clear", "copy", "count", "extend", "index", "insert", "pop",
     "remove", "reverse", "sort"}

\* the names hasattr(v, name) answers True for
AttrNames(v) ==
    CASE v.t = "obj" -> DOMAIN v.m
      [] v.t = "listsub" -> (DOMAIN v.m) \cup ListMethods
      [] v.t = "list" -> ListMethods
      [] v.t = "dict" -> DictMethods
      [] OTHER -> {}
HasAttr(v, name) == name \in AttrNames(v)

\* getattr(v, name, default)
GetAttr(v, name, default) ==
    IF ~HasAttr(v, name) THEN default
    ELSE IF v.t \in {"obj", "listsub"} /\ name \in DOMAIN v.m THEN v.m[name]
    ELSE Callable

\* {k: v for k, v in x.__dict__.items() if not k.startswith("_")}
PublicDict(x) == DictFilter(x.m, {k \in DOMAIN x.m : ~StartsWithUnderscore(k)})

\* json.loads on the strings that occur: ok says whether it parsed
JsonObjectText == "{\"person_id\": \"p1\"}"
JsonScoreText == "{\"score\": 0.87}"
JsonArrayText == "[\"p1\"]"
JsonLoads(s) ==
    CASE s = JsonObjectText -> [ok |-> TRUE, v |-> DictV([person_id |-> Str("p1")])]
      [] s = JsonScoreText -> [ok |-> TRUE, v |-> DictV([score |-> Num("float", 87)])]
      [] s = JsonArrayText -> [ok |-> TRUE, v |-> ListV(<<Str("p1")>>)]
      [] OTHER -> [ok |-> FALSE, v |-> NoneV]

\* ------------------------------------------------- search_people: decoding
\* columns_to_fetch, the column list sent with the query
columns_to_fetch == <<"person_id", "full_name", "first_name", "last_name", "birthdate">>

\* f"field_{i}" for the positions that occur
FieldKeys ==
    <<"field_0", "field_1", "field_2", "field_3", "field_4", "field_5",
      "field_6", "field_7", "field_8", "field_9", "field_10", "field_11">>
FieldKey(i) == FieldKeys[i + 1]

\* the keys the decoder filters out of a dict item (method 7) / of __dict__
ReservedKeys == {"score", "_score"}

\* The decoder's local state while one item is decoded: data is the dict
\* under construction, score the score so far, mapping says whether `data`
\* is still a dict (json.loads may bind it to another, truthy JSON value), exc is
\* the exception raised so far ("" for none).
DecodeStart(item) ==
    [data |-> EmptyDict, score |-> GetAttr(item, "score", NoneV),
     mapping |-> TRUE, exc |-> ""]

\* `not data`
NotData(st) == st.mapping /\ DOMAIN st.data = {}

\* Methods 1 and 2: a truthy `document` / `row` attribute that is a dict or
\* has a __dict__
NamedContainer(item, name, st) ==
    IF HasAttr(item, name) /\ Truthy(GetAttr(item, name, NoneV))
    THEN LET doc == GetAttr(item, name, NoneV)
         IN IF IsDict(doc) THEN [st EXCEPT !.data = doc.m]
            ELSE IF HasDunderDict(doc) THEN [st EXCEPT !.data = PublicDict(doc)]
            ELSE st
    ELSE st

\* the loop body of methods 3 and 4 over a list of fields
RECURSIVE FieldLoop(_, _)
FieldLoop(fields, data) ==
    IF fields = <<>> THEN data
    ELSE LET field == Head(fields)
             next ==
                 IF HasAttr(field, "name") /\ HasAttr(field, "value")
                 THEN DictSet(data, GetAttr(field, "name", NoneV).s,
                              GetAttr(field, "value", NoneV))
                 ELSE IF IsDict(field) /\ "name" \in DOMAIN field.m
                                       /\ "value" \in DOMAIN field.m
                 THEN DictSet(data, field.m["name"].s, field.m["value"])
                 ELSE data
         IN FieldLoop(Tail(fields), next)

\* Method 3: a truthy `fields` attribute, a dict or an iterable of fields
Method3Fields(item, st) ==
    IF HasAttr(item, "fields") /\ Truthy(GetAttr(item, "fields", NoneV))
    THEN LET fields == GetAttr(item, "fields", NoneV)
         IN IF IsDict(fields) THEN [st EXCEPT !.data = fields.m]
            ELSE IF IsListOrTuple(fields)
            THEN [st EXCEPT !.data = FieldLoop(fields.e, st.data)]
            ELSE st
    ELSE st

\* Method 4: a truthy `data_array` attribute, iterated without a type check
Method4DataArray(item, st) ==
    IF HasAttr(item, "data_array") /\ Truthy(GetAttr(item, "data_array", NoneV))
    THEN LET arr == GetAttr(item, "data_array", NoneV)
         IN IF IsListOrTuple(arr)
            THEN [st EXCEPT !.data = FieldLoop(arr.e, st.data)]
            ELSE IF arr.t \in {"dict", "str"} THEN st
            ELSE [st EXCEPT !.exc = "TypeError"]
    ELSE st

\* for i, value in enumerate(values): if i < len(cols): data[cols[i]] = value
\* (else data[f"field_{i}"] = value when extra is set); i counts from 0
RECURSIVE ZipColumns(_, _, _, _, _)
ZipColumns(values, cols, i, extra, data) ==
    IF i >= Len(values) THEN data
    ELSE ZipColumns(values, cols, i + 1, extra,
                    IF i < Len(cols) THEN DictSet(data, cols[i + 1], values[i + 1])
                    ELSE IF extra THEN DictSet(data, FieldKey(i), values[i + 1])
                    ELSE data)

\* Method 5: a truthy `values` attribute mapped to the column names
Method5Values(item, column_names, st) ==
    IF HasAttr(item, "values") /\ Truthy(GetAttr(item, "values", NoneV))
    THEN LET values == GetAttr(item, "values", NoneV)
         IN IF Len(column_names) > 0 /\ IsListOrTuple(values)
            THEN [st EXCEPT !.data = ZipColumns(values.e, column_names, 0, FALSE, st.data)]
            ELSE IF IsListOrTuple(values)
            THEN [st EXCEPT !.data = ZipColumns(values.e, columns_to_fetch, 0, TRUE, st.data)]
            ELSE st
    ELSE st

\* Method 6: a `data` attribute that is a dict or a JSON string
Method6Data(item, st) ==
    IF HasAttr(item, "data")
    THEN LET d == GetAttr(item, "data", NoneV)
         IN IF IsDict(d) THEN [st EXCEPT !.data = d.m]
            ELSE IF d.t = "str"
            THEN LET parsed == JsonLoads(d.s)
                 IN IF ~parsed.ok THEN [st EXCEPT !.data = [raw |-> d]]
                    ELSE IF IsDict(parsed.v) THEN [st EXCEPT !.data = parsed.v.m]
                    ELSE [st EXCEPT !.mapping = FALSE]
            ELSE st
    ELSE st

\* Method 7: the item is a dict
Method7Dict(item, st) ==
    IF IsDict(item)
    THEN [st EXCEPT !.data = DictFilter(item.m, (DOMAIN item.m) \ ReservedKeys)]
    ELSE st

\* a trailing number that overwrites the score already extracted
InferScoreAlways(st, value) == [st EXCEPT !.score = FloatOf(value)]

\* `if score is None: score = float(value)`
InferScore(st, value) ==
    IF st.score = NoneV THEN [st EXCEPT !.score = FloatOf(value)] ELSE st

\* the loop of method 8 with the trailing-number test ahead of the column test
RECURSIVE PositionalLoopScoreFirst(_, _, _, _)
PositionalLoopScoreFirst(elems, cols, i, st) ==
    IF i >= Len(elems) THEN st
    ELSE LET value == elems[i + 1]
             next ==
                 IF i = Len(elems) - 1 /\ IsNumber(value) THEN InferScore(st, value)
                 ELSE IF i < Len(cols)
                 THEN [st EXCEPT !.data = DictSet(st.data, cols[i + 1], value)]
                 ELSE [st EXCEPT !.data = DictSet(st.data, FieldKey(i), value)]
         IN PositionalLoopScoreFirst(elems, cols, i + 1, next)

\* the loop of method 8 over the item's own elements; i counts from 0
RECURSIVE PositionalLoop(_, _, _, _)
PositionalLoop(elems, cols, i, st) ==
    IF i >= Len(elems) THEN st
    ELSE LET value == elems[i + 1]
             next ==
                 IF i < Len(cols) THEN [st EXCEPT !.data = DictSet(st.data, cols[i + 1], value)]
                 ELSE IF i = Len(elems) - 1 /\ IsNumber(value)
                 THEN InferScore(st, value)
                 ELSE [st EXCEPT !.data = DictSet(st.data, FieldKey(i), value)]
         IN PositionalLoop(elems, cols, i + 1, next)

\* Method 8: the item is a list or tuple
Method8Sequence(item, column_names, st) ==
    IF IsListOrTuple(item)
    THEN PositionalLoop(item.e,
                        IF Len(column_names) > 0 THEN column_names ELSE columns_to_fetch,
                        0, st)
    ELSE st

\* Method 9: the item's __dict__
Method9Attributes(item, st) ==
    IF HasDunderDict(item)
    THEN [st EXCEPT !.data =
             DictFilter(item.m, {k \in DOMAIN item.m :
                 /\ ~StartsWithUnderscore(k)
                 /\ k \notin ReservedKeys
                 /\ item.m[k] # NoneV})]
    ELSE st

\* item_attrs = [x for x in dir(item) if not x.startswith("_")]
ItemAttrs(item) == {x \in AttrNames(item) : ~StartsWithUnderscore(x)}

\* the last fallback: every public, non-callable, non-None attribute but score
FallbackAttributes(item, st) ==
    LET keep == {a \in ItemAttrs(item) :
                    /\ GetAttr(item, a, NoneV) # Callable
                    /\ GetAttr(item, a, NoneV) # NoneV
                    /\ a # "score"}
    IN [st EXCEPT !.data = [a \in (DOMAIN st.data) \cup keep |->
                               IF a \in keep THEN GetAttr(item, a, NoneV) ELSE st.data[a]]]

\* a chain whose steps run whether or not data is still empty
GuardedByExceptionOnly(st, next) == IF st.exc = "" THEN next ELSE st

\* one step of the chain: `if not data and ...:` unless an exception is in flight
Guarded(st, next) == IF st.exc = "" /\ NotData(st) THEN next ELSE st

\* `if data: logger.info(f"... {list(data.keys())}")`: a truthy data that
\* is not a dict has no keys()
LogExtracted(st) ==
    IF st.exc = "" /\ ~st.mapping THEN [st EXCEPT !.exc = "AttributeError"] ELSE st

\* the body of the loop over data_array for one item, before the append
DecodeItem(item, column_names) ==
    LET s1 == NamedContainer(item, "document", DecodeStart(item))
        s2 == Guarded(s1, NamedContainer(item, "row", s1))
        s3 == Guarded(s2, Method3Fields(item, s2))
        s4 == Guarded(s3, Method4DataArray(item, s3))
        s5 == Guarded(s4, Method5Values(item, column_names, s4))
        s6 == Guarded(s5, Method6Data(item, s5))
        s7 == Guarded(s6, Method7Dict(item, s6))
        s8 == Guarded(s7, Method8Sequence(item, column_names, s7))
        s9 == Guarded(s8, Method9Attributes(item, s8))
    IN LogExtracted(Guarded(s9, FallbackAttributes(item, s9)))

\* the body of the loop over a result that is itself a list or tuple
DecodeListItem(item) ==
    LET st == [DecodeStart(item) EXCEPT
                   !.score = IF HasAttr(item, "score") THEN GetAttr(item, "score", NoneV) ELSE NoneV]
    IN IF IsDict(item)
       THEN [st EXCEPT !.data = DictFilter(item.m, (DOMAIN item.m) \ {"score"})]
       ELSE IF HasDunderDict(item)
       THEN [st EXCEPT !.data = DictFilter(item.m, {k \in DOMAIN item.m :
                                    ~StartsWithUnderscore(k) /\ k # "score"})]
       ELSE st

\* VectorSearchResult(score=score, data=data): score must be a number or
\* None (a number is stored as float), data must be a dict
ScoreValid(score) == score.t \in {"none", "num"}
CoerceScore(score) == IF score.t = "num" THEN FloatOf(score) ELSE score
MakeResult(st) ==
    IF st.exc # "" THEN [ok |-> FALSE, exc |-> st.exc, score |-> NoneV, data |-> EmptyDict]
    ELSE IF ~st.mapping \/ ~ScoreValid(st.score)
    THEN [ok |-> FALSE, exc |-> "ValidationError", score |-> NoneV, data |-> EmptyDict]
    ELSE [ok |-> TRUE, exc |-> "", score |-> CoerceScore(st.score), data |-> st.data]

\* ------------------------------------------- inputs: the items a backend sends
P1 == Str("p1")
JD == Str("Jane Doe")
BD == Str("1980-01-01")
F87 == Num("float", 87)
F12 == Num("float", 12)
I3 == Num("int", 300)

\* the values of one full row, in the order of columns_to_fetch
MasterRow == <<P1, JD, Str("Jane"), Str("Doe"), BD>>
Elem(i) == IF i <= Len(MasterRow) THEN MasterRow[i] ELSE Str("extra")
Prefix(n) == [i \in 1..n |-> Elem(i)]
WithLast(n, v) == [i \in 1..n |-> IF i = n THEN v ELSE Elem(i)]

\* positional value sequences: every length up to MaxSeqLen, ending in a
\* string or in a number
PosSeqs ==
    {Prefix(n) : n \in 0..MaxSeqLen}
        \cup {WithLast(n, F87) : n \in 1..MaxSeqLen}
        \cup {WithLast(MaxSeqLen, I3)}

NameValueObj(n, v) == ObjV([name |-> Str(n), value |-> v])
NameValueDict(n, v) == DictV([name |-> Str(n), value |-> v])

ListItems == {ListV(s) : s \in PosSeqs}
ListSubItems ==
    {ListSubV(WithLast(3, F87), [score |-> F12]),
     ListSubV(WithLast(MaxSeqLen, F87), [score |-> I3])}
ValuesItems ==
    {ObjV([values |-> ListV(Prefix(0))]),
     ObjV([values |-> ListV(Prefix(2))]),
     ObjV([values |-> ListV(WithLast(3, F87))]),
     ObjV([values |-> ListV(WithLast(MaxSeqLen, F87))]),
     ObjV([values |-> ListV(WithLast(3, F87)), score |-> F12]),
     ObjV([values |-> ListV(WithLast(MaxSeqLen, F87)), score |-> I3])}
DictItems ==
    {DictV(EmptyDict),
     DictV([person_id |-> P1, full_name |-> JD]),
     DictV([person_id |-> P1, score |-> F87]),
     DictV([person_id |-> P1, _score |-> F87]),
     DictV([score |-> F87])}
ContainerItems ==
    {ObjV([document |-> DictV([person_id |-> P1])]),
     ObjV([document |-> DictV([person_id |-> P1, score |-> F87]), score |-> F87]),
     ObjV([document |-> ObjV([person_id |-> P1, _raw |-> Str("x")]), score |-> F87]),
     ObjV([row |-> DictV([person_id |-> P1, _score |-> F87])]),
     ObjV([document |-> DictV([person_id |-> P1]), row |-> DictV([full_name |-> JD])]),
     ObjV([document |-> DictV(EmptyDict), row |-> DictV([full_name |-> JD])]),
     ObjV([fields |-> ListV(<<NameValueObj("person_id", P1), NameValueDict("full_name", JD)>>)]),
     ObjV([fields |-> ListV(<<NameValueObj("score", F87)>>)]),
     ObjV([fields |-> DictV([person_id |-> P1])]),
     ObjV([data_array |-> ListV(<<NameValueDict("person_id", P1)>>)]),
     ObjV([data_array |-> I3]),
     ObjV([data |-> DictV([person_id |-> P1])]),
     ObjV([data |-> Str(JsonObjectText)]),
     ObjV([data |-> Str(JsonScoreText)]),
     ObjV([data |-> Str(JsonArrayText)]),
     ObjV([data |-> Str("not json")])}
AttributeItems ==
    {ObjV(EmptyDict),
     ObjV([score |-> F87]),
     ObjV([person_id |-> P1, full_name |-> JD, score |-> I3]),
     ObjV([person_id |-> P1, _score |-> F87]),
     ObjV([person_id |-> P1, score |-> Str("n/a")]),
     ObjV([person_id |-> NoneV])}

\* the items a result set is drawn from
ItemUniverse ==
    ListItems \cup ListSubItems \cup ValuesItems \cup DictItems
        \cup ContainerItems \cup AttributeItems

\* result_data.manifest: present or not, and the columns of its schema
NoManifest == [present |-> FALSE, columns |-> <<>>]
Manifest(cols) == [present |-> TRUE, columns |-> cols]
Column(n) == ObjV([name |-> Str(n)])
Manifests ==
    {NoManifest,
     Manifest(<<>>),
     Manifest(<<Column("person_id"), Column("full_name")>>),
     Manifest(<<Column("person_id"), Column("score")>>),
     Manifest(<<Column("full_name"), Column("person_id")>>),
     Manifest(<<ObjV(EmptyDict)>>)}

\* what query_index does: it raises, or returns a response. kind says how
\* the response carries the result set: "none" (a falsy response or one
\* without `result`), "data_array" (result.data_array holds n >= 1 items),
\* "list" (result is itself a list of n items), "empty" (any other result).
SearchResponses ==
    {[kind |-> "raise", n |-> 0, manifest |-> NoManifest],
     [kind |-> "none", n |-> 0, manifest |-> NoManifest],
     [kind |-> "empty", n |-> 0, manifest |-> NoManifest]}
        \cup [kind : {"data_array"}, n : 1..MaxItems, manifest : Manifests]
        \cup [kind : {"list"}, n : 0..MaxItems, manifest : {NoManifest}]

\* the search capability the client exposes
Clients == {"vector_search", "vector_search_indexes", "none"}

\* ------------------------------------------------------------------ state
VARIABLES
    pc,            \* position of the running handler
    client,        \* search_people: the capability obo_ws exposes
    response,      \* search_people: what query_index returned
    column_names,  \* search_people: the column list in use
    items,         \* search_people: the items of the result set read so far
    results,       \* search_people: the results list
    person_id,     \* get_person_profile: the path parameter
    queries,       \* get_person_profile: the statements executed, in order,
                   \* each with the table, the bound key and the backend's reply
    result,        \* get_person_profile: the latest statement response
    row,           \* get_person_profile: data_array[0]
    used_fallback, \* get_person_profile: the flag of the same name
    profile,       \* get_person_profile: the PersonProfileOut returned
    raised,        \* the exceptions raised inside the handler, in order
    outcome        \* how the handler ended

vars ==
    <<pc, client, response, column_names, items, results, person_id, queries,
      result, row, used_fallback, profile, raised, outcome>>

searchVars == <<client, response, column_names, items, results>>
profileVars == <<person_id, queries, result, row, used_fallback, profile>>

\* exceptions and outcomes
HTTPException(status) == [type |-> "HTTPException", status |-> status]
PyException(type) == [type |-> type, status |-> 0]
Pending == [kind |-> "pending", status |-> 0]
Returned == [kind |-> "ok", status |-> 200]
Failed(e) == [kind |-> "error", status |-> e.status]

\* the handler of the inner try around query_index
QueryIndexHandler(e) == HTTPException(400)

\* the handlers of the outer try of search_people: what leaves the handler
\* when exception e reaches them
SearchHandlers(e) ==
    IF e.type = "AttributeError" THEN HTTPException(501) ELSE HTTPException(500)

Init ==
    /\ pc = "idle"
    /\ client = "none"
    /\ response = [kind |-> "none", n |-> 0, manifest |-> NoManifest]
    /\ column_names = <<>>
    /\ items = <<>>
    /\ results = <<>>
    /\ person_id = ""
    /\ queries = <<>>
    /\ result = [kind |-> "none", data_array |-> NoneV]
    /\ row = NoneV
    /\ used_fallback = FALSE
    /\ profile = EmptyDict
    /\ raised = <<>>
    /\ outcome = Pending

\* an exception e raised at the current position leaves search_people as
\* SearchHandlers(e)
SearchRaise(e) ==
    /\ raised' = raised \o <<e, SearchHandlers(e)>>
    /\ outcome' = Failed(SearchHandlers(e))
    /\ pc' = "done"

\* a request arrives at POST /search
SearchStart ==
    /\ pc = "idle"
    /\ \E c \in Clients : client' = c
    /\ pc' = "s_client"
    /\ UNCHANGED <<response, column_names, items, results, raised, outcome>>
    /\ UNCHANGED profileVars

\* vector_search_client = getattr(...) or getattr(...); raise AttributeError
SearchGetClient ==
    /\ pc = "s_client"
    /\ IF client = "none"
       THEN SearchRaise(PyException("AttributeError"))
       ELSE pc' = "s_query" /\ UNCHANGED <<raised, outcome>>
    /\ UNCHANGED searchVars
    /\ UNCHANGED profileVars

\* response = vector_search_client.query_index(...)
SearchQueryIndex ==
    /\ pc = "s_query"
    /\ \E r \in SearchResponses :
        /\ response' = r
        /\ IF r.kind = "raise"
           THEN /\ raised' = raised \o <<PyException("Exception"),
                                         QueryIndexHandler(PyException("Exception")),
                                         SearchHandlers(QueryIndexHandler(PyException("Exception")))>>
                /\ outcome' = Failed(SearchHandlers(QueryIndexHandler(PyException("Exception"))))
                /\ pc' = "done"
           ELSE pc' = "s_inspect" /\ UNCHANGED <<raised, outcome>>
    /\ UNCHANGED <<client, column_names, items, results>>
    /\ UNCHANGED profileVars

\* column_names = [col.name for col in result_data.manifest.schema.columns]
ManifestColumnsReadable(m) == \A i \in 1..Len(m.columns) : HasAttr(m.columns[i], "name")
ManifestColumnNames(m) == [i \in 1..Len(m.columns) |-> GetAttr(m.columns[i], "name", NoneV).s]

\* column resolution that ignores the manifest
ResolveColumnsRequestedOnly(m) == columns_to_fetch

\* the column list in use: the manifest's when it names any, else the requested
ResolveColumns(m) ==
    LET from_manifest == IF m.present THEN ManifestColumnNames(m) ELSE <<>>
    IN IF Len(from_manifest) = 0 THEN columns_to_fetch ELSE from_manifest

\* the branch on the shape of response.result, up to the first iteration
SearchInspect ==
    /\ pc = "s_inspect"
    /\ CASE response.kind = "data_array" ->
              IF response.manifest.present /\ ~ManifestColumnsReadable(response.manifest)
              THEN SearchRaise(PyException("AttributeError")) /\ UNCHANGED column_names
              ELSE /\ column_names' = ResolveColumns(response.manifest)
                   /\ pc' = "s_loop"
                   /\ UNCHANGED <<raised, outcome>>
         [] response.kind = "list" ->
              /\ pc' = IF response.n = 0 THEN "s_return" ELSE "s_list"
              /\ UNCHANGED <<column_names, raised, outcome>>
         [] OTHER ->
              /\ pc' = "s_return"
              /\ UNCHANGED <<column_names, raised, outcome>>
    /\ UNCHANGED <<client, response, items, results>>
    /\ UNCHANGED profileVars

\* results.append(VectorSearchResult(score=score, data=data)) for the next
\* item; after the last item the loop ends and the handler returns
AppendResult(item, st) ==
    LET r == MakeResult(st)
    IN /\ items' = Append(items, item)
       /\ IF r.ok
          THEN /\ results' = Append(results, [score |-> r.score, data |-> r.data])
               /\ IF Len(items) + 1 = response.n
                  THEN pc' = "done" /\ outcome' = Returned
                  ELSE pc' = pc /\ outcome' = outcome
               /\ UNCHANGED raised
          ELSE SearchRaise(PyException(r.exc)) /\ UNCHANGED results

\* one iteration of `for idx, item in enumerate(result_data.data_array)`
SearchDecodeNext ==
    /\ pc = "s_loop"
    /\ Len(items) < response.n
    /\ \E item \in ItemUniverse : AppendResult(item, DecodeItem(item, column_names))
    /\ UNCHANGED <<client, response, column_names>>
    /\ UNCHANGED profileVars

\* one iteration of `for item in result_data` (the result is a list)
SearchDecodeListNext ==
    /\ pc = "s_list"
    /\ Len(items) < response.n
    /\ \E item \in ItemUniverse : AppendResult(item, DecodeListItem(item))
    /\ UNCHANGED <<client, response, column_names>>
    /\ UNCHANGED profileVars

\* return VectorSearchResponse(results=results, query=request.query) when
\* there was nothing to iterate
SearchReturn ==
    /\ pc = "s_return"
    /\ outcome' = Returned
    /\ pc' = "done"
    /\ UNCHANGED <<raised>>
    /\ UNCHANGED searchVars
    /\ UNCHANGED profileVars

NextSearch ==
    \/ SearchStart
    \/ SearchGetClient
    \/ SearchQueryIndex
    \/ SearchInspect
    \/ SearchDecodeNext
    \/ SearchDecodeListNext
    \/ SearchReturn

\* ------------------------------------------------------ get_person_profile
\* the two column_mapping tables: (database column, model field), in the
\* order of the SELECT
PrimaryMapping ==
    <<<<"person_id", "person_id">>, <<"full_name", "full_name">>,
      <<"birthdate", "birthdate">>, <<"first_name", "first_name">>,
      <<"last_name", "last_name">>, <<"med_id", "medical_id">>,
      <<"snap_id", "snap_id">>, <<"case_id", "assistance_id">>>>
SecondaryMapping ==
    <<<<"person_id", "person_id">>, <<"medical_id", "medical_id">>,
      <<"snap_id", "snap_id">>, <<"assistance_id", "assistance_id">>,
      <<"first_name", "first_name">>, <<"last_name", "last_name">>,
      <<"birthdate", "birthdate">>, <<"full_name", "full_name">>>>
\* the primary mapping taken whichever table answered
ColumnMappingPrimaryOnly(fallback) == PrimaryMapping
ColumnMapping(fallback) == IF fallback THEN SecondaryMapping ELSE PrimaryMapping

\* the fields of PersonProfileOut
ProfileFields ==
    {"person_id", "medical_id", "snap_id", "assistance_id", "first_name",
     "last_name", "birthdate", "full_name"}

\* inputs: the people a table may hold, as canonical field -> column value
People(key) ==
    {[person_id |-> Str(key), medical_id |-> Str("M9"), snap_id |-> Str("S4"),
      assistance_id |-> Str("A7"), first_name |-> Str("Jane"), last_name |-> Str("Doe"),
      birthdate |-> Str("1980-01-01"), full_name |-> Str("Jane Doe")],
     [person_id |-> Str(key), medical_id |-> NoneV, snap_id |-> Str("S4"),
      assistance_id |-> NoneV, first_name |-> Str("Jane"), last_name |-> Str("Doe"),
      birthdate |-> NoneV, full_name |-> Str("Jane Doe")],
     [person_id |-> Str(key), medical_id |-> Str("M9"), snap_id |-> NoneV,
      assistance_id |-> Str("A7"), first_name |-> NoneV, last_name |-> NoneV,
      birthdate |-> Str("n/a"), full_name |-> NoneV]}

\* inputs: the representations in which a table row of person p arrives
\* under column mapping cm
NativeColumns(cm) == {cm[i][1] : i \in 1..Len(cm)}
NativeIndex(cm, c) == CHOOSE i \in 1..Len(cm) : cm[i][1] = c
CanonicalOf(cm, c) == cm[NativeIndex(cm, c)][2]
RowAsDict(p, cm) == [c \in NativeColumns(cm) |-> p[CanonicalOf(cm, c)]]
RowAsList(p, cm) == [i \in 1..Len(cm) |-> p[cm[i][2]]]
RowRepresentations(p, cm) ==
    {DictV(RowAsDict(p, cm)),
     ListV(RowAsList(p, cm)),
     ListV(SubSeq(RowAsList(p, cm), 1, 3)),
     ObjV([values |-> ListV(RowAsList(p, cm))]),
     ObjV([values |-> I3]),
     ObjV(RowAsDict(p, cm)),
     Str("opaque")}

\* what execute_statement does against a table: it raises, returns a
\* response without result, or a result whose data_array is missing, empty
\* or holds one row (LIMIT 1)
StatementResponses(cm, key) ==
    {[kind |-> "raise", data_array |-> NoneV],
     [kind |-> "noresult", data_array |-> NoneV],
     [kind |-> "result", data_array |-> NoneV],
     [kind |-> "result", data_array |-> ListV(<<>>)]}
        \cup {[kind |-> "result", data_array |-> ListV(<<r>>)] :
                 r \in UNION {RowRepresentations(p, cm) : p \in People(key)}}

PersonIds == {"X1", "ZZZ"}

\* the handlers of the try around the result checks, of the try around the
\* row parsing, and of the outer try: what each passes on for exception e
\* an inner handler without its `except HTTPException: raise` clause
ProfileInnerHandlersNoReraise(e) == HTTPException(500)
\* an outer handler that reports every failure as not found
ProfileOuterHandlersNotFound(e) == IF e.type = "HTTPException" THEN e ELSE HTTPException(404)
ProfileInnerHandlers(e) == IF e.type = "HTTPException" THEN e ELSE HTTPException(500)
RowParseHandler(e) == HTTPException(500)
ProfileOuterHandlers(e) == IF e.type = "HTTPException" THEN e ELSE HTTPException(500)

\* for i, (db_col, model_col) in enumerate(column_mapping):
\*     if i < len(values): profile_data[model_col] = values[i]
RECURSIVE MapColumns(_, _, _, _)
MapColumns(values, cm, i, data) ==
    IF i >= Len(cm) THEN data
    ELSE MapColumns(values, cm, i + 1,
                    IF i < Len(values) THEN DictSet(data, cm[i + 1][2], values[i + 1])
                    ELSE data)

\* the row-format branch: the profile_data it builds, or the exception
ParseRow(r, cm) ==
    IF IsDict(r) THEN [exc |-> "", data |-> r.m]
    ELSE IF r.t = "list" THEN [exc |-> "", data |-> MapColumns(r.e, cm, 0, EmptyDict)]
    ELSE IF HasAttr(r, "values")
    THEN LET values_attr == GetAttr(r, "values", NoneV)
         IN IF IsListOrTuple(values_attr)
            THEN [exc |-> "", data |-> MapColumns(values_attr.e, cm, 0, EmptyDict)]
            ELSE [exc |-> "ValueError", data |-> EmptyDict]
    ELSE IF HasDunderDict(r) THEN [exc |-> "", data |-> PublicDict(r)]
    ELSE [exc |-> "ValueError", data |-> EmptyDict]

\* PersonProfileOut(**profile_data): unknown keys are ignored, a missing
\* field is None, a string field takes a string, birthdate takes an ISO date
\* string and stores a date
ValidDates == {"1980-01-01"}
DateV(iso) == [t |-> "date", iso |-> iso]
FieldInput(data, f) == IF f \in DOMAIN data THEN data[f] ELSE NoneV
FieldValid(f, v) ==
    \/ v = NoneV
    \/ v.t = "str" /\ (f = "birthdate" => v.s \in ValidDates)
FieldStored(f, v) == IF f = "birthdate" /\ v.t = "str" THEN DateV(v.s) ELSE v
ProfileValid(data) == \A f \in ProfileFields : FieldValid(f, FieldInput(data, f))
PersonProfileOut(data) == [f \in ProfileFields |-> FieldStored(f, FieldInput(data, f))]

\* an exception leaves get_person_profile as e (already passed through the
\* handlers); trail is what was raised on the way
ProfileRaise(trail) ==
    /\ raised' = raised \o trail
    /\ outcome' = Failed(trail[Len(trail)])
    /\ pc' = "done"

\* a request arrives at GET /profile/{person_id}
ProfileStart ==
    /\ pc = "idle"
    /\ \E k \in PersonIds : person_id' = k
    /\ pc' = "p_primary"
    /\ UNCHANGED <<queries, result, row, used_fallback, profile, raised, outcome>>
    /\ UNCHANGED searchVars

\* result = execute_statement(... FROM benefits360.silver.people_index ...)
ProfileQueryPrimary ==
    /\ pc = "p_primary"
    /\ \E r \in StatementResponses(PrimaryMapping, person_id) :
        /\ queries' = Append(queries, [table |-> "people_index", key |-> person_id, reply |-> r])
        /\ result' = r
        /\ IF r.kind = "raise"
           THEN ProfileRaise(<<PyException("Exception"),
                               ProfileOuterHandlers(PyException("Exception"))>>)
           ELSE pc' = "p_check" /\ UNCHANGED <<raised, outcome>>
    /\ UNCHANGED <<person_id, row, used_fallback, profile>>
    /\ UNCHANGED searchVars

\* a fallback condition that also treats a single row as none
NoRowsOffByOne(r) == ~Truthy(r.data_array) \/ Len(r.data_array.e) <= 1

\* `if not data_array or len(data_array) == 0`
NoRows(r) == ~Truthy(r.data_array) \/ Len(r.data_array.e) = 0

\* the checks on the primary response, up to the fallback decision
ProfileCheckPrimary ==
    /\ pc = "p_check"
    /\ IF result.kind = "noresult"
       THEN /\ ProfileRaise(<<HTTPException(404),
                              ProfileInnerHandlers(HTTPException(404)),
                              ProfileOuterHandlers(ProfileInnerHandlers(HTTPException(404)))>>)
            /\ UNCHANGED <<row, used_fallback>>
       ELSE IF NoRows(result)
       THEN /\ pc' = "p_secondary"
            /\ UNCHANGED <<row, used_fallback, raised, outcome>>
       ELSE /\ row' = result.data_array.e[1]
            /\ used_fallback' = FALSE
            /\ pc' = "p_decode"
            /\ UNCHANGED <<raised, outcome>>
    /\ UNCHANGED <<person_id, queries, result, profile>>
    /\ UNCHANGED searchVars

\* the fallback: execute_statement(... FROM benefits360.silver.matched_people
\* ...) and the checks on its response
ProfileQuerySecondary ==
    /\ pc = "p_secondary"
    /\ \E r \in StatementResponses(SecondaryMapping, person_id) :
        /\ queries' = Append(queries, [table |-> "matched_people", key |-> person_id, reply |-> r])
        /\ result' = r
        /\ IF r.kind = "raise"
           THEN /\ ProfileRaise(<<PyException("Exception"),
                                  ProfileInnerHandlers(PyException("Exception")),
                                  ProfileOuterHandlers(ProfileInnerHandlers(PyException("Exception")))>>)
                /\ UNCHANGED <<row, used_fallback>>
           ELSE IF r.kind = "noresult" \/ NoRows(r)
           THEN /\ ProfileRaise(<<HTTPException(404),
                                  ProfileInnerHandlers(HTTPException(404)),
                                  ProfileOuterHandlers(ProfileInnerHandlers(HTTPException(404)))>>)
                /\ UNCHANGED <<row, used_fallback>>
           ELSE /\ row' = r.data_array.e[1]
                /\ used_fallback' = TRUE
                /\ pc' = "p_decode"
                /\ UNCHANGED <<raised, outcome>>
    /\ UNCHANGED <<person_id, profile>>
    /\ UNCHANGED searchVars

\* column_mapping, the row-format branch and PersonProfileOut(**profile_data)
ProfileDecodeRow ==
    /\ pc = "p_decode"
    /\ LET parsed == ParseRow(row, ColumnMapping(used_fallback))
       IN IF parsed.exc # ""
          THEN /\ ProfileRaise(<<PyException(parsed.exc),
                                 RowParseHandler(PyException(parsed.exc)),
                                 ProfileOuterHandlers(RowParseHandler(PyException(parsed.exc)))>>)
               /\ UNCHANGED profile
          ELSE IF ~ProfileValid(parsed.data)
          THEN /\ ProfileRaise(<<PyException("ValidationError"),
                                 ProfileOuterHandlers(PyException("ValidationError"))>>)
               /\ UNCHANGED profile
          ELSE /\ profile' = PersonProfileOut(parsed.data)
               /\ outcome' = Returned
               /\ pc' = "done"
               /\ UNCHANGED raised
    /\ UNCHANGED <<person_id, queries, result, row, used_fallback>>
    /\ UNCHANGED searchVars

NextProfile ==
    \/ ProfileStart
    \/ ProfileQueryPrimary
    \/ ProfileCheckPrimary
    \/ ProfileQuerySecondary
    \/ ProfileDecodeRow

Next == NextSearch \/ NextProfile

Spec == Init /\ [][Next]_vars

\* the steps of get_person_profile after the request has arrived
ProfileSteps ==
    \/ ProfileQueryPrimary
    \/ ProfileCheckPrimary
    \/ ProfileQuerySecondary
    \/ ProfileDecodeRow

\* get_person_profile runs its body to the end once called: every backend
\* call returns or raises, and the body has no loop
FairSpec == Spec /\ WF_vars(ProfileSteps)

\* ================================================================= claims
\* search_people has ended after the query returned a result set (a
\* data_array with a readable manifest, or a list)
SearchEndedOnResultSet ==
    /\ pc = "done"
    /\ response.kind \in {"data_array", "list"}
    /\ ManifestColumnsReadable(response.manifest)

\* the column list positional decoding compares an item's length against
ColumnsInUse == IF Len(column_names) > 0 THEN column_names ELSE columns_to_fetch

\* the record the handler's branch builds for item it
ExpectedRecord(it) ==
    IF response.kind = "list" THEN MakeResult(DecodeListItem(it))
    ELSE MakeResult(DecodeItem(it, column_names))

\* C1 - Rank preservation: whenever search_people ends after a successful
\* query that returned a result set of N items, it has returned (no error)
\* exactly N records, the k-th one decoded from the k-th item.
C1_RankPreservation ==
    SearchEndedOnResultSet =>
        /\ outcome = Returned
        /\ Len(results) = response.n
        /\ Len(items) = response.n
        /\ \A k \in 1..Len(results) :
               /\ results[k].data = ExpectedRecord(items[k]).data
               /\ results[k].score = ExpectedRecord(items[k]).score

\* C2 - Reserved-key exclusion: no record in the results list has the key
\* `score` or the key `_score` in its data mapping, on either result path.
C2_ReservedKeyExclusion ==
    \A k \in 1..Len(results) :
        (DOMAIN results[k].data) \cap {"score", "_score"} = {}

\* a statement reply that completed without raising and supplied no row /
\* at least one row
RowCount(r) ==
    IF r.kind = "result" /\ r.data_array.t = "list" THEN Len(r.data_array.e) ELSE 0
ReplyHasNoRow(r) == r.kind # "raise" /\ RowCount(r) = 0
ReplyHasRow(r) == r.kind # "raise" /\ RowCount(r) >= 1
QueriedTables == {queries[i].table : i \in 1..Len(queries)}

\* C3 - Fallback ordering: if the primary source (people_index) returned at
\* least one row, matched_people is never queried during that lookup.
C3_FallbackOrdering ==
    (Len(queries) >= 1 /\ queries[1].table = "people_index" /\ ReplyHasRow(queries[1].reply))
        => "matched_people" \notin QueriedTables

\* witness of C3: a lookup answered by a primary row has ended with a
\* profile after a single query
C3_Witness ==
    /\ pc = "done"
    /\ outcome = Returned
    /\ Len(queries) = 1
    /\ ReplyHasRow(queries[1].reply)
    /\ profile # EmptyDict

\* C4 - whenever the primary query completed without raising and supplied
\* no row (no result object, or a missing or empty row array), a lookup that
\* has produced its outcome has queried matched_people with the same key.
C4_EmptyPrimaryFallsBack ==
    (pc = "done" /\ Len(queries) >= 1 /\ ReplyHasNoRow(queries[1].reply))
        => /\ Len(queries) = 2
           /\ queries[2].table = "matched_people"
           /\ queries[2].key = queries[1].key

\* C5 - a primary query that raises ends the lookup at once with status 500
\* and without a secondary query; a secondary query that raises ends the
\* lookup with status 500 (never 404).
C5_QueryFailureIsBackendError ==
    /\ (Len(queries) >= 1 /\ queries[1].reply.kind = "raise")
           => /\ pc = "done"
              /\ outcome = Failed(HTTPException(500))
              /\ Len(queries) = 1
    /\ (Len(queries) = 2 /\ queries[2].reply.kind = "raise")
           => /\ pc = "done"
              /\ outcome = Failed(HTTPException(500))

\* witness of C5: the primary query raised and the lookup has failed
C5_Witness ==
    /\ pc = "done"
    /\ Len(queries) = 1
    /\ queries[1].table = "people_index"
    /\ queries[1].reply.kind = "raise"
    /\ outcome.kind = "error"

\* C6 - when both queries completed without raising and both returned zero
\* rows, the lookup fails with status 404: no profile, no 500.
C6_BothEmptyIsNotFound ==
    (/\ pc = "done"
     /\ Len(queries) = 2
     /\ ReplyHasNoRow(queries[1].reply)
     /\ ReplyHasNoRow(queries[2].reply))
        => /\ outcome = Failed(HTTPException(404))
           /\ profile = EmptyDict

\* witness of C6: both tables were queried, both replies hold an empty row
\* array, and the lookup has ended
C6_Witness ==
    /\ pc = "done"
    /\ Len(queries) = 2
    /\ queries[1].reply = [kind |-> "result", data_array |-> ListV(<<>>)]
    /\ queries[2].reply = [kind |-> "result", data_array |-> ListV(<<>>)]
    /\ outcome.kind = "error"

\* the row that answered the lookup, the column mapping of its table, and
\* the row's value for native column c in each representation
AnsweringQuery == queries[Len(queries)]
AnsweringMapping ==
    IF AnsweringQuery.table = "matched_people" THEN SecondaryMapping ELSE PrimaryMapping
AnsweringRow == AnsweringQuery.reply.data_array.e[1]
PositionalValue(values, cm, c) ==
    IF NativeIndex(cm, c) <= Len(values) THEN values[NativeIndex(cm, c)] ELSE NoneV
RowNativeValue(r, cm, c) ==
    CASE r.t = "dict" -> IF c \in DOMAIN r.m THEN r.m[c] ELSE NoneV
      [] r.t = "list" -> PositionalValue(r.e, cm, c)
      [] r.t = "obj" /\ "values" \in DOMAIN r.m -> PositionalValue(r.m["values"].e, cm, c)
      [] r.t = "obj" -> IF c \in DOMAIN r.m THEN r.m[c] ELSE NoneV
      [] OTHER -> NoneV
NativeOf(cm, f) == cm[CHOOSE i \in 1..Len(cm) : cm[i][2] = f][1]

\* C7 - every canonical field of a returned profile equals the answering
\* row's value for the native column its table's schema maps to that field
\* (med_id -> medical_id, case_id -> assistance_id for people_index), in
\* every row representation.
C7_ProfileFollowsSourceSchema ==
    (pc = "done" /\ outcome = Returned /\ Len(queries) >= 1)
        => \A f \in ProfileFields :
               profile[f] = FieldStored(f, RowNativeValue(AnsweringRow, AnsweringMapping,
                                                          NativeOf(AnsweringMapping, f)))

\* the explicit score an item exposes (attribute or `score` key), the bare
\* value sequence it exposes (itself or its `values`), and whether that
\* sequence qualifies for trailing-numeric inference against cols
ExplicitScoreOf(it) ==
    IF HasAttr(it, "score") /\ GetAttr(it, "score", NoneV) # NoneV
    THEN GetAttr(it, "score", NoneV)
    ELSE IF it.t = "dict" /\ "score" \in DOMAIN it.m THEN it.m["score"]
    ELSE NoneV
BareSequence(it) ==
    IF it.t \in {"list", "listsub"} THEN it.e
    ELSE IF it.t = "obj" /\ "values" \in DOMAIN it.m /\ it.m["values"].t = "list"
    THEN it.m["values"].e
    ELSE <<>>
QualifiesForTrailing(it, cols) ==
    /\ Len(BareSequence(it)) > Len(cols)
    /\ BareSequence(it)[Len(BareSequence(it))].t = "num"
SameNumber(a, b) == a.t = "num" /\ b.t = "num" /\ a.n = b.n

\* C8 - Score precedence: the record emitted for an item that carries an
\* explicit score and qualifies for trailing-numeric inference has the
\* explicit score, not the trailing element.
C8_ScorePrecedence ==
    \A k \in 1..Len(results) :
        (ExplicitScoreOf(items[k]) # NoneV /\ QualifiesForTrailing(items[k], ColumnsInUse))
            => SameNumber(results[k].score, ExplicitScoreOf(items[k]))

\* witness of C8: a record was emitted on the data_array path for an item
\* that is itself a sequence longer than the columns, ends in a number and
\* carries an explicit score different from that number
C8_Witness ==
    \E k \in 1..Len(results) :
        /\ response.kind = "data_array"
        /\ items[k].t = "listsub"
        /\ ExplicitScoreOf(items[k]) # NoneV
        /\ QualifiesForTrailing(items[k], ColumnsInUse)
        /\ ~SameNumber(ExplicitScoreOf(items[k]), items[k].e[Len(items[k].e)])

\* C9 - an item of any representation that exposes an explicit score (as an
\* attribute or as a `score` key) yields a record whose score is that value.
C9_ExplicitScoreInSlot ==
    \A k \in 1..Len(results) :
        ExplicitScoreOf(items[k]) # NoneV
            => SameNumber(results[k].score, ExplicitScoreOf(items[k]))

\* C10 - Trailing-numeric inference: on the data_array path, an item whose
\* bare value sequence (itself or its `values`) is longer than the columns
\* in use and ends in a number, with no explicit score, yields a record whose
\* score is that number, whose first len(columns) elements sit under the
\* columns in order, and which does not store the number as a data field.
C10_TrailingNumericScore ==
    \A k \in 1..Len(results) :
        LET seq == BareSequence(items[k])
            cols == ColumnsInUse
        IN (/\ response.kind = "data_array"
            /\ QualifiesForTrailing(items[k], cols)
            /\ ExplicitScoreOf(items[k]) = NoneV)
               => /\ SameNumber(results[k].score, seq[Len(seq)])
                  /\ \A i \in 1..Len(cols) :
                         /\ cols[i] \in DOMAIN results[k].data
                         /\ results[k].data[cols[i]] = seq[i]
                  /\ FieldKey(Len(seq) - 1) \notin DOMAIN results[k].data

\* an item that is positional and nothing else: a list or tuple, or an
\* object whose only attributes are a `values` list and possibly `score`
IsPositionalItem(it) ==
    \/ it.t \in {"list", "listsub"}
    \/ /\ it.t = "obj"
       /\ "values" \in DOMAIN it.m
       /\ it.m["values"].t = "list"
       /\ DOMAIN it.m \subseteq {"values", "score"}

\* the record emitted for positional item it with score sc and data d is the
\* prefix mapping of its sequence onto cols, and no score was inferred
IsPrefixMapping(it, cols, sc, d) ==
    LET seq == BareSequence(it)
    IN /\ DOMAIN d = {cols[i] : i \in 1..Len(seq)}
       /\ \A i \in 1..Len(seq) : d[cols[i]] = seq[i]
       /\ IF ExplicitScoreOf(it) = NoneV THEN sc = NoneV
          ELSE SameNumber(sc, ExplicitScoreOf(it))

\* C11 as stated - Positional prefix mapping: on the data_array path a
\* positional item of any length n <= len(columns), n = 0 included, yields
\* exactly the keys columns[0..n-1] with the elements in order and no
\* inferred score.
C11_PrefixMappingAnyLength ==
    \A k \in 1..Len(results) :
        (/\ response.kind = "data_array"
         /\ IsPositionalItem(items[k])
         /\ Len(BareSequence(items[k])) <= Len(column_names))
            => IsPrefixMapping(items[k], column_names, results[k].score, results[k].data)

\* C11 as amended - the same for a non-empty positional item, 1 <= n <=
\* len(columns): exactly the keys columns[0..n-1], record[columns[i]] the
\* i-th element, and the score absent unless explicit, even when the last
\* element is a number.
C11_PrefixMapping ==
    \A k \in 1..Len(results) :
        (/\ response.kind = "data_array"
         /\ IsPositionalItem(items[k])
         /\ Len(BareSequence(items[k])) >= 1
         /\ Len(BareSequence(items[k])) <= Len(column_names))
            => IsPrefixMapping(items[k], column_names, results[k].score, results[k].data)

\* witness of C11: a record was emitted for a list shorter than the columns
\* whose last element is a number, with no explicit score
C11_Witness ==
    \E k \in 1..Len(results) :
        /\ response.kind = "data_array"
        /\ items[k].t = "list"
        /\ Len(items[k].e) >= 1
        /\ Len(items[k].e) < Len(column_names)
        /\ items[k].e[Len(items[k].e)].t = "num"
        /\ results[k].score = NoneV

\* the names the backend advertised, read off the manifest of the response
AdvertisedNames ==
    [i \in 1..Len(response.manifest.columns) |-> response.manifest.columns[i].m["name"].s]

\* items of a data_array result set are being, or have been, decoded
DecodingDataArray == response.kind = "data_array" /\ (pc = "s_loop" \/ Len(items) > 0)

\* C12 - Column resolution precedence: the column list used for positional
\* decoding is the manifest's list whenever it is present and non-empty,
\* whatever its count or order, otherwise the requested list unchanged; it
\* is never empty.
C12_ColumnResolutionPrecedence ==
    DecodingDataArray =>
        /\ column_names =
              IF response.manifest.present /\ Len(response.manifest.columns) > 0
              THEN AdvertisedNames
              ELSE <<"person_id", "full_name", "first_name", "last_name", "birthdate">>
        /\ Len(column_names) > 0

\* witness of C12: a list item was decoded against a manifest that differs
\* from the requested list in count and in order
C12_Witness ==
    /\ DecodingDataArray
    /\ response.manifest.present
    /\ column_names = <<"full_name", "person_id">>
    /\ \E k \in 1..Len(results) :
          /\ items[k].t = "list"
          /\ Len(items[k].e) = 2
          /\ results[k].data = [full_name |-> items[k].e[1], person_id |-> items[k].e[2]]

\* C13 - Decoding is absorbed locally: once the query has returned a result
\* set and an item of it has been taken for decoding, no item makes
\* search_people end in an error; every item taken has its record in the
\* results list.
C13_DecodingAbsorbedLocally ==
    Len(items) > 0 =>
        /\ outcome.kind # "error"
        /\ Len(results) = Len(items)

\* C14 - Hard errors propagate unchanged: every HTTPException raised inside
\* search_people or get_person_profile, with the status chosen where it is
\* raised, is the error that leaves the operation, with that same status.
C14_HardErrorsPropagateUnchanged ==
    \A i \in 1..Len(raised) :
        raised[i].type = "HTTPException" =>
            /\ outcome.kind = "error"
            /\ outcome.status = raised[i].status

\* search_people has ended
SearchEnded == pc = "done" /\ person_id = ""

\* C15 - search_people ends in BackendUnavailable (status 501) exactly when
\* the client exposes neither vector_search nor vector_search_indexes: with
\* a capability present no failure of the query call, of reading the
\* response or its manifest, or of decoding an item ends in 501.
C15_UnavailableIffNoCapability ==
    SearchEnded =>
        ((outcome.kind = "error" /\ outcome.status = 501) <=> client = "none")

\* the decoding strategies in the order the loop body tries them
Strategies == 1..10

\* what strategy j alone makes of item it, started from an empty record
StrategyAlone(j, it, cols) ==
    LET st == DecodeStart(it)
    IN CASE j = 1 -> NamedContainer(it, "document", st)
         [] j = 2 -> NamedContainer(it, "row", st)
         [] j = 3 -> Method3Fields(it, st)
         [] j = 4 -> Method4DataArray(it, st)
         [] j = 5 -> Method5Values(it, cols, st)
         [] j = 6 -> Method6Data(it, st)
         [] j = 7 -> Method7Dict(it, st)
         [] j = 8 -> Method8Sequence(it, cols, st)
         [] j = 9 -> Method9Attributes(it, st)
         [] OTHER -> FallbackAttributes(it, st)

\* strategy j yields a non-empty mapping for item it
Yields(j, it, cols) ==
    LET st == StrategyAlone(j, it, cols)
    IN st.exc = "" /\ st.mapping /\ DOMAIN st.data # {}

\* the strategies that yield a non-empty mapping for item it
Qualifying(it, cols) == {j \in Strategies : Yields(j, it, cols)}

\* the highest-priority strategy from j on that yields a non-empty mapping
\* for item it, 0 when none does
RECURSIVE FirstYielding(_, _, _)
FirstYielding(j, it, cols) ==
    IF j \notin Strategies THEN 0
    ELSE IF Yields(j, it, cols) THEN j
    ELSE FirstYielding(j + 1, it, cols)

\* C16 - First strategy wins: the record emitted for an item of the
\* data_array is exactly the mapping of the highest-priority strategy that
\* yields a non-empty mapping for it (the empty record when none does); no
\* lower-priority strategy adds a key or overwrites a value.
C16_FirstStrategyWins ==
    response.kind = "data_array" =>
        \A k \in 1..Len(results) :
            LET w == FirstYielding(1, items[k], column_names)
            IN results[k].data =
                   IF w = 0 THEN EmptyDict
                   ELSE StrategyAlone(w, items[k], column_names).data

\* witness of C16: a record was emitted for an item for which two
\* strategies yield different non-empty mappings, and it is the first one's
C16_Witness ==
    \E k \in 1..Len(results) :
        /\ response.kind = "data_array"
        /\ {1, 2} \subseteq Qualifying(items[k], column_names)
        /\ StrategyAlone(1, items[k], column_names).data
              # StrategyAlone(2, items[k], column_names).data
        /\ results[k].data = StrategyAlone(1, items[k], column_names).data

\* a lookup is in progress or has ended
InLookup == person_id # ""

\* the schema of the last table queried
LastQueriedSchema == IF Len(queries) = 2 THEN SecondaryMapping ELSE PrimaryMapping

\* the protocol of one lookup, as far as it has got: at most two queries,
\* people_index first and then matched_people with the same key; an outcome
\* exactly when the lookup has ended, one of profile, 404 and 500; a profile
\* only from the first row of the last reply, decoded with that table's schema
LookupProtocol ==
    InLookup =>
        /\ Len(queries) <= 2
        /\ Len(queries) >= 1 =>
              queries[1].table = "people_index" /\ queries[1].key = person_id
        /\ Len(queries) = 2 =>
              queries[2].table = "matched_people" /\ queries[2].key = queries[1].key
        /\ pc # "done" => outcome = Pending /\ profile = EmptyDict
        /\ pc = "done" =>
              \/ outcome = Returned /\ profile # EmptyDict
              \/ outcome \in {Failed(HTTPException(404)), Failed(HTTPException(500))}
                    /\ profile = EmptyDict
        /\ outcome = Returned =>
              /\ Len(queries) >= 1
              /\ RowCount(AnsweringQuery.reply) >= 1
              /\ row = AnsweringRow
              /\ used_fallback <=> Len(queries) = 2
              /\ profile = PersonProfileOut(ParseRow(AnsweringRow, LastQueriedSchema).data)

\* C17 - Two-tier lookup protocol: every execution of get_person_profile
\* issues at most two queries, the primary one first and then at most one
\* secondary query with the same key, and then ends in exactly one outcome
\* (profile, 404 or 500); a profile comes only from a row of the last source
\* queried, decoded with the secondary schema iff the secondary was queried.
C17_TwoTierLookupProtocol ==
    /\ []LookupProtocol
    /\ InLookup ~> (pc = "done")

\* witness of C17: a lookup has ended with a profile decoded from a
\* positional row of matched_people after people_index returned no row
C17_Witness ==
    /\ pc = "done"
    /\ outcome = Returned
    /\ Len(queries) = 2
    /\ ReplyHasNoRow(queries[1].reply)
    /\ AnsweringRow.t = "list"
    /\ used_fallback

====
